---------------------------- MODULE Spec2Model ----------------------------
(***************************************************************************)
(* Model of shelter/data.py: the column-name normalisation of load_data    *)
(* (convert_camel_case) and the feature derivation add_features with its   *)
(* rule functions check_is_dog, check_has_name, get_sex, get_neutered,     *)
(* get_hair_type and compute_days_upon_outcome.                            *)
(*                                                                         *)
(* A Python str is a sequence of one-character strings, so that suffix,    *)
(* substring, case folding, splitting and number parsing are computed and  *)
(* not assumed.  A pandas Series is a sequence of cells, a DataFrame a     *)
(* record of a column order and a column -> Series map, and DataFrames     *)
(* live in a heap (frames) so that copying and aliasing are observable.    *)
(***************************************************************************)
EXTENDS Integers, Sequences, FiniteSets

(***************************************************************************)
(* Bounds of the model.                                                    *)
(***************************************************************************)
\* rows of a table
MaxRows == 2
\* fragments concatenated to build the cells of the varied column
MaxParts == 2
\* fragments concatenated to build a column name
MaxNameParts == 3

(***************************************************************************)
(* Characters and the str methods the code uses.                           *)
(***************************************************************************)
UpperChars == <<"A","B","C","D","E","F","G","H","I","J","K","L","M",
                "N","O","P","Q","R","S","T","U","V","W","X","Y","Z">>
LowerChars == <<"a","b","c","d","e","f","g","h","i","j","k","l","m",
                "n","o","p","q","r","s","t","u","v","w","x","y","z">>
DigitChars == <<"0","1","2","3","4","5","6","7","8","9">>

IsUpper(c) == \E i \in 1..26 : UpperChars[i] = c
IsLower(c) == \E i \in 1..26 : LowerChars[i] = c
IsDigit(c) == \E i \in 1..10 : DigitChars[i] = c
DigitVal(c) == (CHOOSE i \in 1..10 : DigitChars[i] = c) - 1

\* str.lower() on one character
LowerChar(c) ==
    IF IsUpper(c) THEN LowerChars[CHOOSE i \in 1..26 : UpperChars[i] = c] ELSE c

\* str.lower()
StrLower(s) == [i \in 1..Len(s) |-> LowerChar(s[i])]

\* s[i:i+len(t)] == t
MatchAt(s, t, i) ==
    /\ i >= 1
    /\ i + Len(t) - 1 <= Len(s)
    /\ \A j \in 1..Len(t) : s[i + j - 1] = t[j]

\* str.endswith(suffix)
EndsWith(s, suffix) == MatchAt(s, suffix, Len(s) - Len(suffix) + 1)

\* str.contains(pat) for a pattern without regex metacharacters
Contains(s, pat) == \E i \in 1..(Len(s) + 1) : MatchAt(s, pat, i)

RECURSIVE ReplaceFrom(_, _, _, _)
ReplaceFrom(s, old, new, i) ==
    IF i > Len(s) THEN <<>>
    ELSE IF MatchAt(s, old, i) THEN new \o ReplaceFrom(s, old, new, i + Len(old))
    ELSE <<s[i]>> \o ReplaceFrom(s, old, new, i + 1)

\* str.replace(old, new) for a non-empty old
StrReplace(s, old, new) == ReplaceFrom(s, old, new, 1)

RECURSIVE SplitFrom(_, _, _)
SplitFrom(s, i, cur) ==
    IF i > Len(s) THEN (IF cur = <<>> THEN <<>> ELSE <<cur>>)
    ELSE IF s[i] = " "
         THEN (IF cur = <<>> THEN <<>> ELSE <<cur>>) \o SplitFrom(s, i + 1, <<>>)
         ELSE SplitFrom(s, i + 1, Append(cur, s[i]))

\* str.split(): the tokens between runs of whitespace
StrSplit(s) == SplitFrom(s, 1, <<>>)

RECURSIVE Concat(_)
Concat(ss) == IF ss = <<>> THEN <<>> ELSE Head(ss) \o Concat(Tail(ss))

(***************************************************************************)
(* convert_camel_case: the two re.sub calls and the final lower().         *)
(* re.sub replaces the leftmost non-overlapping matches, scanning left to  *)
(* right, and [a-z]+ is greedy.                                            *)
(***************************************************************************)
RECURSIVE LowerRunEnd(_, _)
\* the last index of the run of [a-z] that starts at index i
LowerRunEnd(s, i) ==
    IF i + 1 <= Len(s) /\ IsLower(s[i + 1]) THEN LowerRunEnd(s, i + 1) ELSE i

RECURSIVE SubFirstFrom(_, _)
SubFirstFrom(s, i) ==
    IF i > Len(s) THEN <<>>
    ELSE IF i + 2 <= Len(s) /\ IsUpper(s[i + 1]) /\ IsLower(s[i + 2])
         THEN LET e == LowerRunEnd(s, i + 2)
              IN  <<s[i], "_">> \o SubSeq(s, i + 1, e) \o SubFirstFrom(s, e + 1)
         ELSE <<s[i]>> \o SubFirstFrom(s, i + 1)

\* re.sub('(.)([A-Z][a-z]+)', r'\1_\2', name)
SubFirst(name) == SubFirstFrom(name, 1)

RECURSIVE SubSecondFrom(_, _)
SubSecondFrom(s, i) ==
    IF i > Len(s) THEN <<>>
    ELSE IF i + 1 <= Len(s) /\ (IsLower(s[i]) \/ IsDigit(s[i])) /\ IsUpper(s[i + 1])
         THEN <<s[i], "_", s[i + 1]>> \o SubSecondFrom(s, i + 2)
         ELSE <<s[i]>> \o SubSecondFrom(s, i + 1)

\* re.sub('([a-z0-9])([A-Z])', r'\1_\2', s1)
SubSecond(s1) == SubSecondFrom(s1, 1)

\* convert_camel_case without its lower()
FinalCaseKept(s) == s

\* what convert_camel_case does to the result of the second re.sub
FinalCase(s) == StrLower(s)

convert_camel_case(name) == FinalCase(SubSecond(SubFirst(name)))

\* the first rename of load_data: lambda x: x.replace('upon', 'Upon')
FixUpon(x) == StrReplace(x, <<"u","p","o","n">>, <<"U","p","o","n">>)

(***************************************************************************)
(* Cells of the derived columns.  The labels are str values: get_neutered  *)
(* and get_hair_type keep them in the same Series as the case-folded       *)
(* input.  A float is num/den with den a power of ten, NaN or +-inf.       *)
(***************************************************************************)
L_unknown == <<"u","n","k","n","o","w","n">>
L_female == <<"f","e","m","a","l","e">>
L_male == <<"m","a","l","e">>
L_fixed == <<"f","i","x","e","d">>
L_intact == <<"i","n","t","a","c","t">>
S_Female == <<"F","e","m","a","l","e">>
S_Male == <<"M","a","l","e">>
S_neutered == <<"n","e","u","t","e","r","e","d">>
S_spayed == <<"s","p","a","y","e","d">>
S_Unknown == <<"U","n","k","n","o","w","n">>
S_dog == <<"d","o","g">>
S_cat == <<"c","a","t">>

\* valid_hair_types of get_hair_type
valid_hair_types == <<<<"s","h","o","r","t","h","a","i","r">>, <<"m","e","d","i","u","m"," ","h","a","i","r">>, <<"l","o","n","g","h","a","i","r">>>>

NaN == [kind |-> "nan", num |-> 0, den |-> 1]
Num(n, d) == [kind |-> "num", num |-> n, den |-> d]
Inf(sign) == [kind |-> "inf", num |-> sign, den |-> 1]

RECURSIVE DigitsValue(_)
\* the integer a sequence of decimal digits denotes
DigitsValue(ds) ==
    IF ds = <<>> THEN 0
    ELSE 10 * DigitsValue(SubSeq(ds, 1, Len(ds) - 1)) + DigitVal(ds[Len(ds)])

RECURSIVE Pow10(_)
Pow10(k) == IF k = 0 THEN 1 ELSE 10 * Pow10(k - 1)

\* float(tok) of astype(float): [ok, val]; ok = FALSE is ValueError.  Covers an
\* optional sign followed by nan, inf, infinity (any case) or by a decimal
\* literal with an optional point; exponent and underscore forms do not occur
\* in the cells drawn here.
ParseFloat(tok) ==
    LET signed == tok # <<>> /\ tok[1] \in {"+", "-"}
        sign == IF signed /\ tok[1] = "-" THEN -1 ELSE 1
        body == IF signed THEN Tail(tok) ELSE tok
        low == StrLower(body)
        dots == {i \in 1..Len(body) : body[i] = "."}
        digs == {i \in 1..Len(body) : IsDigit(body[i])}
        noDot == [i \in 1..(Len(body) - Cardinality(dots)) |->
                    IF dots # {} /\ i >= (CHOOSE d \in dots : TRUE)
                    THEN body[i + 1] ELSE body[i]]
        frac == IF dots = {} THEN 0 ELSE Len(body) - (CHOOSE d \in dots : TRUE)
    IN  IF low = <<"n","a","n">> THEN [ok |-> TRUE, val |-> NaN]
        ELSE IF low = <<"i","n","f">> \/ low = <<"i","n","f","i","n","i","t","y">>
             THEN [ok |-> TRUE, val |-> Inf(sign)]
        ELSE IF /\ digs # {}
                /\ Cardinality(dots) <= 1
                /\ Cardinality(dots) + Cardinality(digs) = Len(body)
             THEN [ok |-> TRUE,
                   val |-> Num(sign * DigitsValue(noDot), Pow10(frac))]
        ELSE [ok |-> FALSE, val |-> NaN]

\* period_mapping with a month of 31 days
period_mapping_31(u) ==
    IF u = <<"y","e","a","r">> \/ u = <<"y","e","a","r","s">> THEN 365
    ELSE IF u = <<"w","e","e","k","s">> \/ u = <<"w","e","e","k">> THEN 7
    ELSE IF u = <<"m","o","n","t","h">> \/ u = <<"m","o","n","t","h","s">> THEN 31
    ELSE IF u = <<"d","a","y","s">> \/ u = <<"d","a","y">> THEN 1
    ELSE 0

\* period_mapping of compute_days_upon_outcome; 0 stands for a key that is
\* absent, which Series.map turns into NaN
period_mapping(u) ==
    IF u = <<"y","e","a","r">> \/ u = <<"y","e","a","r","s">> THEN 365
    ELSE IF u = <<"w","e","e","k","s">> \/ u = <<"w","e","e","k">> THEN 7
    ELSE IF u = <<"m","o","n","t","h">> \/ u = <<"m","o","n","t","h","s">> THEN 30
    ELSE IF u = <<"d","a","y","s">> \/ u = <<"d","a","y">> THEN 1
    ELSE 0

\* time.astype(float) * period.map(period_mapping) for one row
TimesPeriod(t, d) ==
    IF t.kind = "nan" \/ d = 0 THEN NaN
    ELSE IF t.kind = "inf" THEN t
    ELSE Num(t.num * d, t.den)

\* the three places compute_days_upon_outcome raises on a Series, in the
\* order the code reaches them: x[0] of an empty split, x[1] of a one-token
\* split, float() of a non-numeric magnitude; "" when it returns
DaysRaises(age) ==
    LET sp == [i \in 1..Len(age) |-> StrSplit(age[i])]
    IN  IF \E i \in 1..Len(age) : sp[i] = <<>> THEN "IndexError"
        ELSE IF \E i \in 1..Len(age) : sp[i][1] # S_Unknown /\ Len(sp[i]) < 2
             THEN "IndexError"
        ELSE IF \E i \in 1..Len(age) :
                    sp[i][1] # S_Unknown /\ ~ParseFloat(sp[i][1]).ok
             THEN "ValueError"
        ELSE ""

\* compute_days_upon_outcome on a Series on which it does not raise
DaysValues(age) ==
    [i \in 1..Len(age) |->
        LET x == StrSplit(age[i])
        IN  IF x[1] = S_Unknown THEN NaN
            ELSE TimesPeriod(ParseFloat(x[1]).val, period_mapping(x[2]))]

\* series.loc[mask] = value
MaskAssign(series, mask, value) ==
    [i \in 1..Len(series) |-> IF mask[i] THEN value ELSE series[i]]

\* series.str.lower()
SeriesLower(series) == [i \in 1..Len(series) |-> StrLower(series[i])]

\* series.str.contains(pat)
SeriesContains(series, pat) == [i \in 1..Len(series) |-> Contains(series[i], pat)]

\* ~series.isin(values)
SeriesNotIn(series, values) == [i \in 1..Len(series) |-> series[i] \notin values]

(***************************************************************************)
(* Tables.  A DataFrame is [cols, data]: the column order and the Series   *)
(* of each column.  The input tables vary one of the five consumed columns *)
(* and keep the others at a usual value; the cells of the varied column    *)
(* are concatenations of the fragments below.                              *)
(***************************************************************************)
InputCols == <<"date_time", "animal_type", "name", "sex_upon_outcome",
               "breed", "age_upon_outcome">>
ConsumedCols == {"animal_type", "name", "sex_upon_outcome", "breed",
                 "age_upon_outcome"}
DerivedCols == <<"is_dog", "has_name", "sex", "neutered", "hair_type",
                 "days_upon_outcome">>

Range(f) == {f[i] : i \in DOMAIN f}

Frags(c) ==
    CASE c = "animal_type" -> {<<>>, <<"D","o","g">>, <<"c","a","t">>, <<"B","i","r","d">>}
      [] c = "name" -> {<<>>, <<"U","n","k","n","o","w","n">>, <<"u","n","k","n","o","w","n">>, <<"R","e","x">>}
      [] c = "sex_upon_outcome" ->
            {<<>>, <<"S","p","a","y","e","d"," ">>, <<"N","e","u","t","e","r","e","d"," ">>, <<"I","n","t","a","c","t"," ">>, <<"F","e","m","a","l","e">>, <<"M","a","l","e">>,
             <<"F","i","x","e","d">>, <<"U","n","k","n","o","w","n">>}
      [] c = "breed" ->
            {<<>>, <<"D","o","m","e","s","t","i","c"," ">>, <<"S","h","o","r","t","h","a","i","r">>, <<"M","e","d","i","u","m"," ","H","a","i","r">>, <<"L","o","n","g","h","a","i","r">>, <<" ","M","i","x">>}
      [] c = "age_upon_outcome" ->
            {<<>>, <<"1",".","5"," ">>, <<"-","1"," ">>, <<"y","e","a","r","s">>, <<"w","e","e","k">>, <<" ","d","a","y">>, <<"m","o","n","t","h","s">>,
             <<"U","n","k","n","o","w","n">>, <<"f","o","r","t","n","i","g","h","t","s">>}

Usual(c) ==
    CASE c = "date_time" -> <<"2","0","1","4","-","0","2","-","1","2">>
      [] c = "animal_type" -> <<"D","o","g">>
      [] c = "name" -> <<"R","e","x">>
      [] c = "sex_upon_outcome" -> <<"N","e","u","t","e","r","e","d"," ","M","a","l","e">>
      [] c = "breed" -> <<"D","o","m","e","s","t","i","c"," ","S","h","o","r","t","h","a","i","r"," ","M","i","x">>
      [] c = "age_upon_outcome" -> <<"2"," ","y","e","a","r","s">>

\* the Series of r cells built from the fragment sequence ps, fragment j
\* going to cell rowOf[j]
CellsOf(ps, rowOf, r) ==
    [i \in 1..r |->
        Concat([j \in 1..Cardinality({k \in DOMAIN ps : rowOf[k] = i}) |->
                  ps[CHOOSE k \in DOMAIN ps :
                        /\ rowOf[k] = i
                        /\ Cardinality({m \in 1..k : rowOf[m] = i}) = j]])]

\* every Series of at most MaxRows cells, each built from at least one
\* fragment (the empty fragment gives the empty cell), holding at most
\* MaxParts fragments in all
SeriesOver(c) ==
    {<<>>} \cup
    UNION {UNION {
        {CellsOf(ps, rowOf, r) :
            ps \in [1..t -> Frags(c)],
            rowOf \in {f \in [1..t -> 1..r] :
                         /\ \A a, b \in 1..t : a <= b => f[a] <= f[b]
                         /\ \A i \in 1..r : \E a \in 1..t : f[a] = i}}
        : t \in 1..MaxParts} : r \in 1..MaxRows}

\* the DataFrame whose column c is the Series cells
InputFrame(c, cells) ==
    [cols |-> InputCols,
     data |-> [k \in Range(InputCols) |->
                 IF k = c THEN cells ELSE [i \in 1..Len(cells) |-> Usual(k)]]]

NRows(frame) == Len(frame.data[frame.cols[1]])

\* df[col] = series
SetCol(frame, col, series) ==
    [cols |-> IF col \in Range(frame.cols) THEN frame.cols
              ELSE Append(frame.cols, col),
     data |-> [k \in Range(frame.cols) \cup {col} |->
                 IF k = col THEN series ELSE frame.data[k]]]

(***************************************************************************)
(* State.                                                                  *)
(***************************************************************************)
VARIABLES
    frames,   \* the heap of DataFrames; a DataFrame object is its index
    orig,     \* the table as it was when passed to the running add_features
    arg,      \* the DataFrame passed to add_features
    df,       \* the DataFrame the local name df is bound to (0: not yet)
    loc,      \* the object the running rule's local Series name is bound to
    tmp,      \* the Series object a rule function created
    hair,     \* how many entries of valid_hair_types the loop has done
    log,      \* the records handed to the logging module
    run,      \* 1: the first add_features call, 2: the call on its result
    exc,      \* the exception add_features propagated, "" if none
    pc,       \* the position in add_features
    name,     \* a column name on its way through the renames of load_data
    raw,      \* the column name as read from the file
    prev,     \* the result of the previous convert_camel_case call
    via,      \* "load": renamed by load_data; "call": convert_camel_case alone
    npc       \* the position in the renaming

vars == <<frames, orig, arg, df, loc, tmp, hair, log, run, exc, pc,
          name, raw, prev, via, npc>>
tableVars == <<frames, orig, arg, df, loc, tmp, hair, log, run, exc, pc>>
nameVars == <<name, raw, prev, via, npc>>

\* a Series object: a column of a DataFrame on the heap, or the fresh Series
ColRef(f, c) == [kind |-> "col", frame |-> f, col |-> c]
TmpRef == [kind |-> "tmp", frame |-> 0, col |-> ""]

ReadSer(ref) ==
    IF ref.kind = "tmp" THEN tmp ELSE frames[ref.frame].data[ref.col]

\* the heap after the Series object ref is given the cells series
FramesAfterWrite(ref, series) ==
    IF ref.kind = "tmp" THEN frames
    ELSE [frames EXCEPT ![ref.frame].data[ref.col] = series]

TmpAfterWrite(ref, series) == IF ref.kind = "tmp" THEN series ELSE tmp

\* df = df without the copy: the local name stays bound to the argument
DfNoCopy(fs, a) == [frames |-> fs, df |-> a]

\* df.copy(): a new DataFrame object with the same columns and cells
DfCopy(fs, a) == [frames |-> Append(fs, fs[a]), df |-> Len(fs) + 1]

\* a case folding done in place on the Series that was passed in
NeuteredInPlace(param) == param

\* the object .str.lower() returns in get_neutered: a new Series
NeuteredLocal(param) == TmpRef

\* the object .str.lower() returns in get_hair_type: a new Series
HairLocal(param) == TmpRef

(***************************************************************************)
(* add_features, one action per statement of the rule functions that       *)
(* writes a Series; the last statement of a rule carries its return and    *)
(* the column assignment of add_features that receives it.                 *)
(***************************************************************************)
Init ==
    \E c \in ConsumedCols : \E cells \in SeriesOver(c) :
        /\ frames = <<InputFrame(c, cells)>>
        /\ orig = InputFrame(c, cells)
        /\ arg = 1
        /\ df = 0
        /\ loc = TmpRef
        /\ tmp = <<>>
        /\ hair = 0
        /\ log = <<>>
        /\ run = 1
        /\ exc = ""
        /\ pc = "copy"
        /\ name = <<>>
        /\ raw = <<>>
        /\ prev = <<>>
        /\ via = "call"
        /\ npc = "idle"

\* line 65: df = df.copy()
Copy ==
    /\ pc = "copy"
    /\ LET r == DfCopy(frames, arg)
       IN  /\ frames' = r.frames
           /\ df' = r.df
    /\ pc' = "is_dog"
    /\ UNCHANGED <<orig, arg, loc, tmp, hair, log, run, exc, nameVars>>

\* an anomaly test that accepts dogs only
IsCatDogOnlyDog(v) == StrLower(v) = S_dog

\* animal_type.str.lower().isin(['dog', 'cat'])
IsCatDog(v) == StrLower(v) \in {S_dog, S_cat}

\* animal_type.str.lower() == 'dog'
IsDog(v) == StrLower(v) = S_dog

\* lines 104-108 and 68: check_is_dog and df['is_dog'] = ...
CheckIsDog ==
    /\ pc = "is_dog"
    /\ LET animal_type == frames[df].data["animal_type"]
           anomalies == SelectSeq(animal_type, LAMBDA v : ~IsCatDog(v))
           result == [i \in 1..Len(animal_type) |-> IsDog(animal_type[i])]
       IN  /\ log' = IF anomalies # <<>>
                     THEN Append(log, [level |-> "ERROR", rows |-> anomalies])
                     ELSE log
           /\ frames' = [frames EXCEPT ![df] = SetCol(@, "is_dog", result)]
    /\ pc' = "has_name"
    /\ UNCHANGED <<orig, arg, df, loc, tmp, hair, run, exc, nameVars>>

\* name.str.lower() != 'unknown'
HasName(v) == StrLower(v) # L_unknown

\* lines 125 and 71: check_has_name and df['has_name'] = ...
CheckHasName ==
    /\ pc = "has_name"
    /\ LET nm == frames[df].data["name"]
       IN  frames' = [frames EXCEPT ![df] =
                SetCol(@, "has_name", [i \in 1..Len(nm) |-> HasName(nm[i])])]
    /\ pc' = "sex_new"
    /\ UNCHANGED <<orig, arg, df, loc, tmp, hair, log, run, exc, nameVars>>

\* line 142: sex = pd.Series('unknown', index=sex_upon_outcome.index)
SexNew ==
    /\ pc = "sex_new"
    /\ loc' = TmpRef
    /\ tmp' = [i \in 1..Len(frames[df].data["sex_upon_outcome"]) |-> L_unknown]
    /\ pc' = "sex_female"
    /\ UNCHANGED <<frames, orig, arg, df, hair, log, run, exc, nameVars>>

\* str.endswith('Female') of line 143
EndsWithFemale(v) == EndsWith(v, S_Female)

\* the 'Male' suffix test done on the case-folded value
EndsWithMaleFolded(v) == EndsWith(StrLower(v), L_male)

\* str.endswith('Male') of line 144
EndsWithMale(v) == EndsWith(v, S_Male)

\* line 143: sex.loc[sex_upon_outcome.str.endswith('Female')] = 'female'
SexFemale ==
    /\ pc = "sex_female"
    /\ LET param == frames[df].data["sex_upon_outcome"]
       IN  tmp' = MaskAssign(tmp,
                    [i \in 1..Len(param) |-> EndsWithFemale(param[i])], L_female)
    /\ pc' = "sex_male"
    /\ UNCHANGED <<frames, orig, arg, df, loc, hair, log, run, exc, nameVars>>

\* lines 144-146 and 74: the 'Male' overwrite, return sex, df['sex'] = ...
SexMale ==
    /\ pc = "sex_male"
    /\ LET param == frames[df].data["sex_upon_outcome"]
           sex == MaskAssign(tmp,
                    [i \in 1..Len(param) |-> EndsWithMale(param[i])], L_male)
       IN  /\ tmp' = sex
           /\ frames' = [frames EXCEPT ![df] = SetCol(@, "sex", sex)]
    /\ pc' = "neut_lower"
    /\ UNCHANGED <<orig, arg, df, loc, hair, log, run, exc, nameVars>>

\* line 163: neutered = sex_upon_outcome.str.lower()
NeutLower ==
    /\ pc = "neut_lower"
    /\ LET param == ColRef(df, "sex_upon_outcome")
           target == NeuteredLocal(param)
           series == SeriesLower(ReadSer(param))
       IN  /\ loc' = target
           /\ frames' = FramesAfterWrite(target, series)
           /\ tmp' = TmpAfterWrite(target, series)
    /\ pc' = "neut_neutered"
    /\ UNCHANGED <<orig, arg, df, hair, log, run, exc, nameVars>>

\* a statement neutered.loc[neutered.str.contains(pat)] = label
NeutOverwrite(at, pat, label, next) ==
    /\ pc = at
    /\ LET cur == ReadSer(loc)
           new == MaskAssign(cur, SeriesContains(cur, pat), label)
       IN  /\ frames' = FramesAfterWrite(loc, new)
           /\ tmp' = TmpAfterWrite(loc, new)
    /\ pc' = next
    /\ UNCHANGED <<orig, arg, df, loc, hair, log, run, exc, nameVars>>

\* line 164
NeutNeutered == NeutOverwrite("neut_neutered", S_neutered, L_fixed, "neut_spayed")

\* line 165
NeutSpayed == NeutOverwrite("neut_spayed", S_spayed, L_fixed, "neut_intact")

\* line 167
NeutIntact == NeutOverwrite("neut_intact", L_intact, L_intact, "neut_default")

\* lines 168-170 and 77: the default, return neutered, df['neutered'] = ...
NeutDefault ==
    /\ pc = "neut_default"
    /\ LET cur == ReadSer(loc)
           new == MaskAssign(cur, SeriesNotIn(cur, {L_fixed, L_intact}), L_unknown)
           fs == FramesAfterWrite(loc, new)
       IN  /\ frames' = [fs EXCEPT ![df] = SetCol(@, "neutered", new)]
           /\ tmp' = TmpAfterWrite(loc, new)
    /\ pc' = "hair_lower"
    /\ UNCHANGED <<orig, arg, df, loc, hair, log, run, exc, nameVars>>

\* lines 186-187: hair_type = breed.str.lower()
HairLower ==
    /\ pc = "hair_lower"
    /\ LET param == ColRef(df, "breed")
           target == HairLocal(param)
           series == SeriesLower(ReadSer(param))
       IN  /\ loc' = target
           /\ frames' = FramesAfterWrite(target, series)
           /\ tmp' = TmpAfterWrite(target, series)
    /\ hair' = 0
    /\ pc' = "hair_loop"
    /\ UNCHANGED <<orig, arg, df, log, run, exc, nameVars>>

\* the containment test done on the breed column instead of on hair_type
IsHairTypeOfBreed(hair_type, breed, h) == SeriesContains(SeriesLower(breed), h)

\* line 190: is_hair_type = hair_type.str.contains(hair)
IsHairType(hair_type, breed, h) == SeriesContains(hair_type, h)

\* lines 189-191: one iteration of for hair in valid_hair_types
HairLoop ==
    /\ pc = "hair_loop"
    /\ hair < Len(valid_hair_types)
    /\ LET h == valid_hair_types[hair + 1]
           cur == ReadSer(loc)
           new == MaskAssign(cur,
                    IsHairType(cur, frames[df].data["breed"], h), h)
       IN  /\ frames' = FramesAfterWrite(loc, new)
           /\ tmp' = TmpAfterWrite(loc, new)
    /\ hair' = hair + 1
    /\ pc' = IF hair + 1 = Len(valid_hair_types) THEN "hair_default"
             ELSE "hair_loop"
    /\ UNCHANGED <<orig, arg, df, loc, log, run, exc, nameVars>>

\* lines 193-195 and 80: the default, return hair_type, df['hair_type'] = ...
HairDefault ==
    /\ pc = "hair_default"
    /\ LET cur == ReadSer(loc)
           new == MaskAssign(cur, SeriesNotIn(cur, Range(valid_hair_types)),
                             L_unknown)
           fs == FramesAfterWrite(loc, new)
       IN  /\ frames' = [fs EXCEPT ![df] = SetCol(@, "hair_type", new)]
           /\ tmp' = TmpAfterWrite(loc, new)
    /\ pc' = "days"
    /\ UNCHANGED <<orig, arg, df, loc, hair, log, run, exc, nameVars>>

\* lines 212-219 and 83-87: compute_days_upon_outcome returns,
\* df['days_upon_outcome'] = ..., return df
ComputeDays ==
    /\ pc = "days"
    /\ LET age == frames[df].data["age_upon_outcome"]
       IN  /\ DaysRaises(age) = ""
           /\ frames' = [frames EXCEPT ![df] =
                            SetCol(@, "days_upon_outcome", DaysValues(age))]
    /\ pc' = "returned"
    /\ UNCHANGED <<orig, arg, df, loc, tmp, hair, log, run, exc, nameVars>>

\* lines 213, 214, 217: compute_days_upon_outcome raises, and add_features,
\* which catches nothing, propagates it
ComputeDaysRaise ==
    /\ pc = "days"
    /\ DaysRaises(frames[df].data["age_upon_outcome"]) # ""
    /\ exc' = DaysRaises(frames[df].data["age_upon_outcome"])
    /\ pc' = "raised"
    /\ UNCHANGED <<frames, orig, arg, df, loc, tmp, hair, log, run, nameVars>>

\* add_features called on the table the first call returned
Rederive ==
    /\ pc = "returned"
    /\ run = 1
    /\ run' = 2
    /\ arg' = df
    /\ orig' = frames[df]
    /\ df' = 0
    /\ loc' = TmpRef
    /\ tmp' = <<>>
    /\ hair' = 0
    /\ pc' = "copy"
    /\ UNCHANGED <<frames, log, exc, nameVars>>

Next ==
    \/ Copy
    \/ CheckIsDog
    \/ CheckHasName
    \/ SexNew
    \/ SexFemale
    \/ SexMale
    \/ NeutLower
    \/ NeutNeutered
    \/ NeutSpayed
    \/ NeutIntact
    \/ NeutDefault
    \/ HairLower
    \/ HairLoop
    \/ HairDefault
    \/ ComputeDays
    \/ ComputeDaysRaise
    \/ Rederive

Spec == Init /\ [][Next]_vars

(***************************************************************************)
(* The renames of load_data applied to one column name, and                *)
(* convert_camel_case called on its own result.                            *)
(***************************************************************************)
NameFrags == {<<"D","a","t","e">>, <<"T","i","m","e">>, <<"S","e","x">>, <<"u","p","o","n">>, <<"O","u","t","c","o","m","e">>, <<"A","n","i","m","a","l">>, <<"I","D">>,
              <<"a">>, <<"B">>, <<"1">>, <<"_">>}

Names == UNION {{Concat(ps) : ps \in [1..k -> NameFrags]} : k \in 0..MaxNameParts}

InitNames ==
    \E n \in Names : \E v \in {"load", "call"} :
        /\ raw = n
        /\ name = n
        /\ prev = <<>>
        /\ via = v
        /\ npc = "read"
        /\ frames = <<>>
        /\ orig = <<>>
        /\ arg = 0
        /\ df = 0
        /\ loc = TmpRef
        /\ tmp = <<>>
        /\ hair = 0
        /\ log = <<>>
        /\ run = 0
        /\ exc = ""
        /\ pc = "idle"

\* line 27: .rename(columns=lambda x: x.replace('upon', 'Upon'))
RenameUpon ==
    /\ npc = "read"
    /\ via = "load"
    /\ name' = FixUpon(name)
    /\ npc' = "fixed"
    /\ UNCHANGED <<raw, prev, via, tableVars>>

\* line 28: .rename(columns=convert_camel_case)
RenameCamel ==
    /\ npc = "fixed"
    /\ name' = convert_camel_case(name)
    /\ npc' = "snake"
    /\ UNCHANGED <<raw, prev, via, tableVars>>

\* lines 48-49: convert_camel_case(name) called directly
ConvertCall ==
    /\ npc = "read"
    /\ via = "call"
    /\ name' = convert_camel_case(name)
    /\ npc' = "snake"
    /\ UNCHANGED <<raw, prev, via, tableVars>>

\* lines 48-49: convert_camel_case called on a name it returned
ConvertAgain ==
    /\ npc = "snake"
    /\ prev' = name
    /\ name' = convert_camel_case(name)
    /\ npc' = "again"
    /\ UNCHANGED <<raw, via, tableVars>>

NextNames ==
    \/ RenameUpon
    \/ RenameCamel
    \/ ConvertCall
    \/ ConvertAgain

SpecNames == InitNames /\ [][NextNames]_vars

(***************************************************************************)
(* Properties.                                                             *)
(***************************************************************************)
FrameIds == 1..Len(frames)
HasCol(f, c) == c \in Range(frames[f].cols)
Col(f, c) == frames[f].data[c]
Rows(f) == 1..NRows(frames[f])

\* the label the sex rule is to give to s
SexLabel(s) ==
    IF EndsWith(s, S_Female) THEN L_female
    ELSE IF EndsWith(s, S_Male) THEN L_male
    ELSE L_unknown

\* C1: every sex cell is "female" if sex_upon_outcome ends with "Female",
\* "male" if it ends with "Male" and "unknown" otherwise; after the "Female"
\* step the local Series marks exactly the values ending in "Female", and
\* after the "Male" step no value ending in "Female" is labelled "male".
C1_SexLabel ==
    /\ pc = "sex_male" =>
          \A i \in 1..Len(tmp) :
             tmp[i] = (IF EndsWith(Col(df, "sex_upon_outcome")[i], S_Female)
                       THEN L_female ELSE L_unknown)
    /\ \A f \in FrameIds :
          HasCol(f, "sex") =>
             \A i \in Rows(f) :
                /\ Col(f, "sex")[i] = SexLabel(Col(f, "sex_upon_outcome")[i])
                /\ EndsWith(Col(f, "sex_upon_outcome")[i], S_Female)
                      => Col(f, "sex")[i] # L_male

\* C1 witness: get_sex has returned on a table with a value ending in
\* "Female", labelled "female", and one ending in "Male", labelled "male".
C1_Witness ==
    /\ pc = "neut_lower"
    /\ \E i, j \in Rows(df) :
          /\ EndsWith(Col(df, "sex_upon_outcome")[i], S_Female)
          /\ Col(df, "sex")[i] = L_female
          /\ EndsWith(Col(df, "sex_upon_outcome")[j], S_Male)
          /\ ~EndsWith(Col(df, "sex_upon_outcome")[j], S_Female)
          /\ Col(df, "sex")[j] = L_male

\* the label the neutered rule is to give to s
NeuteredLabel(s) ==
    IF Contains(StrLower(s), S_neutered) \/ Contains(StrLower(s), S_spayed)
    THEN L_fixed
    ELSE IF Contains(StrLower(s), L_intact) THEN L_intact
    ELSE L_unknown

\* C2: every neutered cell is "fixed" iff the case-folded sex_upon_outcome
\* contains "neutered" or "spayed", otherwise "intact" iff it contains
\* "intact", and "unknown" for every other value.
C2_NeuteredLabel ==
    \A f \in FrameIds :
       HasCol(f, "neutered") =>
          \A i \in Rows(f) :
             Col(f, "neutered")[i] = NeuteredLabel(Col(f, "sex_upon_outcome")[i])

\* the label the hair_type rule is to give to breed b
HairLabel(b) ==
    IF Contains(StrLower(b), <<"s","h","o","r","t","h","a","i","r">>) THEN <<"s","h","o","r","t","h","a","i","r">>
    ELSE IF Contains(StrLower(b), <<"m","e","d","i","u","m"," ","h","a","i","r">>) THEN <<"m","e","d","i","u","m"," ","h","a","i","r">>
    ELSE IF Contains(StrLower(b), <<"l","o","n","g","h","a","i","r">>) THEN <<"l","o","n","g","h","a","i","r">>
    ELSE L_unknown

\* the labels the loop of get_hair_type has written so far
HairWritten == {valid_hair_types[k] : k \in 1..hair}

\* a step of get_hair_type keeps every cell that holds a written label
HairKept ==
    pc \in {"hair_loop", "hair_default"} =>
       \A i \in 1..Len(ReadSer(loc)) :
          ReadSer(loc)[i] \in HairWritten => ReadSer(loc)'[i] = ReadSer(loc)[i]

\* C3: every hair_type cell is the earliest of shorthair, medium hair,
\* longhair contained in the case-folded breed, "unknown" if none is; and
\* no step of get_hair_type changes a cell that holds a label an earlier
\* loop iteration wrote.
C3_HairEarliestWins ==
    /\ [](\A f \in FrameIds :
            HasCol(f, "hair_type") =>
               \A i \in Rows(f) :
                  Col(f, "hair_type")[i] = HairLabel(Col(f, "breed")[i]))
    /\ [][HairKept]_vars

\* C3 witness: the loop is over on a breed that contains both "shorthair"
\* and "longhair", and its cell holds "shorthair".
C3_Witness ==
    /\ pc = "hair_default"
    /\ \E i \in Rows(df) :
          /\ Contains(StrLower(Col(df, "breed")[i]), <<"s","h","o","r","t","h","a","i","r">>)
          /\ Contains(StrLower(Col(df, "breed")[i]), <<"l","o","n","g","h","a","i","r">>)
          /\ ReadSer(loc)[i] = <<"s","h","o","r","t","h","a","i","r">>

\* the unit strings and the days of each
UnitNames == {<<"y","e","a","r">>, <<"y","e","a","r","s">>, <<"m","o","n","t","h">>, <<"m","o","n","t","h","s">>, <<"w","e","e","k">>, <<"w","e","e","k","s">>, <<"d","a","y">>, <<"d","a","y","s">>}
UnitDays(u) ==
    CASE u \in {<<"y","e","a","r">>, <<"y","e","a","r","s">>} -> 365
      [] u \in {<<"m","o","n","t","h">>, <<"m","o","n","t","h","s">>} -> 30
      [] u \in {<<"w","e","e","k">>, <<"w","e","e","k","s">>} -> 7
      [] u \in {<<"d","a","y">>, <<"d","a","y","s">>} -> 1

\* C4: where compute_days_upon_outcome returns, a cell of two tokens, a
\* number m and a unit u, gives m x d(u) for u among the eight unit strings
\* and a missing value for any other u; a cell whose first token is
\* "Unknown" gives a missing value.
C4_DaysTable ==
    \A f \in FrameIds :
       HasCol(f, "days_upon_outcome") =>
          \A i \in Rows(f) :
             LET x == StrSplit(Col(f, "age_upon_outcome")[i])
                 d == Col(f, "days_upon_outcome")[i]
                 m == ParseFloat(x[1])
             IN  /\ x # <<>> /\ x[1] = S_Unknown => d = NaN
                 /\ Len(x) = 2 /\ m.ok /\ m.val.kind = "num" =>
                       IF x[2] \in UnitNames
                       THEN d = Num(m.val.num * UnitDays(x[2]), m.val.den)
                       ELSE d = NaN

\* C4 witness: compute_days_upon_outcome has returned on "1.5 months".
C4_Witness ==
    /\ pc = "returned"
    /\ \E i \in Rows(df) :
          /\ Col(df, "age_upon_outcome")[i] = <<"1",".","5"," ","m","o","n","t","h","s">>
          /\ Col(df, "days_upon_outcome")[i] = Num(450, 10)

\* C5: add_features never raises on a table that has the five columns.
C5_NeverRaises == pc # "raised" /\ exc = ""

\* C6: the table passed to add_features is unchanged at every step; the
\* table add_features works on and returns is another object, with the same
\* rows and every original column holding its original cells; what it
\* returns has the original columns, in their order, followed by the six
\* derived ones.
C6_InputUnchanged ==
    /\ frames[arg] = orig
    /\ df # 0 =>
          /\ df # arg
          /\ NRows(frames[df]) = NRows(orig)
          /\ \A c \in Range(orig.cols) :
                HasCol(df, c) /\ Col(df, c) = orig.data[c]
    /\ pc = "returned" =>
          /\ Range(frames[df].cols) = Range(orig.cols) \cup Range(DerivedCols)
          /\ SubSeq(frames[df].cols, 1, Len(orig.cols)) = orig.cols
          /\ Cardinality(Range(frames[df].cols)) = Len(frames[df].cols)

\* C6 witness: the first call has returned a table of two rows whose
\* sex_upon_outcome holds a value that get_neutered rewrites.
C6_Witness ==
    /\ pc = "returned"
    /\ run = 1
    /\ NRows(frames[df]) = 2
    /\ \E i \in Rows(df) :
          /\ Col(df, "sex_upon_outcome")[i] = <<"S","p","a","y","e","d"," ">>
          /\ Col(df, "neutered")[i] = L_fixed

\* C7: add_features on the table add_features returned gives the same row
\* count, the same columns and the same cells in the six derived columns.
C7_Idempotent ==
    run = 2 /\ pc = "returned" =>
       /\ NRows(frames[df]) = NRows(frames[arg])
       /\ frames[df].cols = frames[arg].cols
       /\ \A c \in Range(DerivedCols) : Col(df, c) = Col(arg, c)

\* C7 witness: the second call has returned on a table with a row.
C7_Witness ==
    /\ run = 2
    /\ pc = "returned"
    /\ NRows(frames[df]) >= 1
    /\ \E i \in Rows(df) : Col(df, "sex")[i] = L_female

\* the check_is_dog calls that have returned
IsDogCalls == IF pc \in {"copy", "is_dog"} THEN run - 1 ELSE run

\* C8: is_dog is true exactly on the rows whose case-folded animal_type is
\* "dog"; each check_is_dog call hands the log one error record if a row is
\* neither dog nor cat and none otherwise, and returns in both cases.
C8_IsDog ==
    /\ \A f \in FrameIds :
          HasCol(f, "is_dog") =>
             \A i \in Rows(f) :
                Col(f, "is_dog")[i] = (StrLower(Col(f, "animal_type")[i]) = S_dog)
    /\ pc \notin {"copy", "is_dog"} => HasCol(df, "is_dog")
    /\ \A k \in 1..Len(log) : log[k].level = "ERROR"
    /\ Len(log) =
          IF \E i \in 1..NRows(orig) :
                StrLower(orig.data["animal_type"][i]) \notin {S_dog, S_cat}
          THEN IsDogCalls ELSE 0

\* C8 witness: check_is_dog has returned false for a "Bird" row next to a
\* dog and the log holds the one record.
C8_Witness ==
    /\ pc = "has_name"
    /\ run = 1
    /\ Len(log) = 1
    /\ \E i, j \in Rows(df) :
          /\ Col(df, "animal_type")[i] = <<"B","i","r","d">>
          /\ Col(df, "is_dog")[i] = FALSE
          /\ Col(df, "is_dog")[j] = TRUE

\* C9: convert_camel_case applied to its own result changes nothing; a name
\* without an uppercase letter is returned unchanged; and the two renames of
\* load_data turn "DateTime" into "date_time", "SexuponOutcome" into
\* "sex_upon_outcome" and "AnimalID" into "animal_id".
C9_CamelCase ==
    /\ npc = "again" => name = prev
    /\ npc = "snake" /\ via = "call"
          /\ (\A i \in 1..Len(raw) : ~IsUpper(raw[i])) => name = raw
    /\ npc = "snake" /\ via = "load" =>
          /\ raw = <<"D","a","t","e","T","i","m","e">> => name = <<"d","a","t","e","_","t","i","m","e">>
          /\ raw = <<"S","e","x","u","p","o","n","O","u","t","c","o","m","e">> => name = <<"s","e","x","_","u","p","o","n","_","o","u","t","c","o","m","e">>
          /\ raw = <<"A","n","i","m","a","l","I","D">> => name = <<"a","n","i","m","a","l","_","i","d">>

\* C9 witness: "SexuponOutcome" went through load_data's renames and
\* through convert_camel_case once more.
C9_Witness ==
    /\ npc = "again"
    /\ via = "load"
    /\ raw = <<"S","e","x","u","p","o","n","O","u","t","c","o","m","e">>
    /\ name = <<"s","e","x","_","u","p","o","n","_","o","u","t","c","o","m","e">>

\* C10: sex, neutered and hair_type cells lie in their label sets and a
\* days_upon_outcome cell is missing or a non-negative number.
C10_Domains ==
    \A f \in FrameIds :
       /\ HasCol(f, "sex") =>
             \A i \in Rows(f) : Col(f, "sex")[i] \in {L_female, L_male, L_unknown}
       /\ HasCol(f, "neutered") =>
             \A i \in Rows(f) :
                Col(f, "neutered")[i] \in {L_fixed, L_intact, L_unknown}
       /\ HasCol(f, "hair_type") =>
             \A i \in Rows(f) :
                Col(f, "hair_type")[i] \in
                   {<<"s","h","o","r","t","h","a","i","r">>, <<"m","e","d","i","u","m"," ","h","a","i","r">>, <<"l","o","n","g","h","a","i","r">>, L_unknown}
       /\ HasCol(f, "days_upon_outcome") =>
             \A i \in Rows(f) :
                \/ Col(f, "days_upon_outcome")[i] = NaN
                \/ Col(f, "days_upon_outcome")[i].num >= 0

=============================================================================
